---- MODULE Spec2Model ----
(***************************************************************************)
(* The turn engine and game lifecycle of the games service.                *)
(*                                                                         *)
(* Modelled revision: the database-backed Game class                       *)
(* (services/games-service/src/game.ts, second class, lines 394-722), the  *)
(* TurnHandler it extends (unnamed/part_004) and the service actions and   *)
(* event handlers of games-service.ts.                                     *)
(*                                                                         *)
(* One Game document lives in the games collection.  Every handler reads   *)
(* a snapshot of it (games.get / games.find), computes on the snapshot and *)
(* writes fields back with games.update; the read and the write are two    *)
(* steps of the model, so handlers interleave the way the awaits of the    *)
(* code allow.  Timers are kept per service instance in Game.gameTimeout.  *)
(***************************************************************************)
EXTENDS Integers, Sequences, FiniteSets, TLC

VARIABLES
    game,      \* the persisted Game document (games collection)
    timers,    \* Game.gameTimeout of every service instance
    events,    \* games.turn.updated events emitted and not yet handled
    procs,     \* handler invocations between their read and their write
    hist       \* history: last reply, emitted and awarded rounds, churn, cap of turns

vars == <<game, timers, events, procs, hist>>

---------------------------------------------------------------------------
(* Bounds of the model *)

NumWhite == 3        \* white cards in the room's decks
NumBlack == 3        \* black cards in the room's decks
HandSize == 1        \* cards in a full hand (the code deals up to 10)
MaxTurn == 2         \* rounds started per game
MaxHistory == 1      \* entries of Game.turns (hist.cap of a behaviour)
MaxEvents == 2       \* games.turn.updated events in flight
MaxProcs == 2        \* handler invocations in flight
NumInst == 1         \* instances of the games service
MaxChurn == 1        \* rooms.player.joined / rooms.player.left events
Target == 1          \* room.options.target
RoundTime == 60      \* room.options.roundTime, seconds
MaxArms == 4         \* setTimeout calls of one instance (timer table of SpecTimers)
MaxGames == 2        \* games.create calls of a room (games collection of SpecStart)

GraceDelay == 10     \* delay of the next-turn timer, seconds

---------------------------------------------------------------------------
(* Values *)

Null == "null"
Undef == "undefined"

TURN_SETUP == "turnSetup"
PICKING_CARDS == "pickingCards"
SELECTING_WINNER == "selectingWinner"
ENEDED == "ended"

Clients == {"a", "b", "c"}
RoomPlayers == <<"a", "b">>     \* room.players when the game is started
Host == "a"                     \* room.host
Rooms == {<<"a">>, RoomPlayers} \* room.players a games.start call can find
Inst == 1..NumInst
GameIds == {"g1", "g2"}        \* games an instance holds timers of (SpecTimers)

AllWhite == <<"w1", "w2", "w3", "w4", "w5", "w6", "w7", "w8", "w9">>
AllBlack == <<"b1", "b2", "b3", "b4", "b5">>
WhiteDeck == SubSeq(AllWhite, 1, NumWhite)   \* decks.get: whiteCards
BlackDeck == SubSeq(AllBlack, 1, NumBlack)   \* decks.get: blackCards

\* cards.get of a black card: its pick count
Pick(b) == IF b \in {"b2", "b4"} THEN 2 ELSE 1

Range(s) == {s[i] : i \in 1..Len(s)}
RemoveAt(s, i) == SubSeq(s, 1, i - 1) \o SubSeq(s, i + 1, Len(s))
EmptyMap == [x \in {} |-> <<>>]
MapPut(m, k, v) == [x \in (DOMAIN m) \cup {k} |-> IF x = k THEN v ELSE m[x]]

---------------------------------------------------------------------------
(* JavaScript arrays, 0-based *)

\* arr[index]: undefined outside the array
JsAt(arr, index) == IF index \in 0..(Len(arr) - 1) THEN arr[index + 1] ELSE Undef

\* arr.splice(index, 1): a negative index counts from the end
JsSplice1(arr, index) ==
    LET at == IF index < 0 THEN Len(arr) + index ELSE index
    IN  IF at \in 0..(Len(arr) - 1) THEN RemoveAt(arr, at + 1) ELSE arr

\* Math.round(Math.random() * upperLimit): every value it can return
getRandomIndex(upperLimit) ==
    IF upperLimit >= 0 THEN 0..upperLimit ELSE upperLimit..0

---------------------------------------------------------------------------
(* The Game document and the snapshots published about it *)

NoTurnData == [czar |-> Null, blackCard |-> Null, turn |-> 0]

\* no document: before games.create ("none") and after games.remove ("removed")
NoGame(doc) ==
    [doc |-> doc, players |-> <<>>, gameState |-> TURN_SETUP, turns |-> <<>>,
     whiteCards |-> <<>>, blackCards |-> <<>>, turnData |-> NoTurnData,
     selectedCards |-> EmptyMap]

Live(g) == g.doc = "live"

PlayerIds(players) == [i \in 1..Len(players) |-> players[i].id]
HasPlayer(players, p) == \E i \in 1..Len(players) : players[i].id = p
\* playersArr.findIndex(player => player._id === p), 0-based, -1 when absent
FindIndex(players, p) ==
    IF HasPlayer(players, p)
    THEN (CHOOSE i \in 1..Len(players) :
            /\ players[i].id = p
            /\ \A j \in 1..(i - 1) : players[j].id # p) - 1
    ELSE -1
PlayerOf(players, p) == players[FindIndex(players, p) + 1]

\* Object.values(players).map(({ _id, score, isCzar }) => ({ _id, score, isCzar }))
PublicPlayers(players) ==
    [i \in 1..Len(players) |->
        [id |-> players[i].id, score |-> players[i].score, isCzar |-> players[i].isCzar]]

\* TurnDataWithState: the payload of games.turn.updated and the entries of turns.
\* winner holds a single winner or null, winners the list published at the end.
TurnSnapshot(g, state, selected, winner, winners, winningCards, err, init) ==
    [state |-> state, turn |-> g.turnData.turn, czar |-> g.turnData.czar,
     blackCard |-> g.turnData.blackCard, players |-> PublicPlayers(g.players),
     selectedCards |-> selected, winner |-> winner, winners |-> winners,
     winningCards |-> winningCards, errorMessage |-> err, initializing |-> init]

initalizePlayers(roomPlayers) ==
    [i \in 1..Len(roomPlayers) |->
        [id |-> roomPlayers[i], cards |-> <<>>, isCzar |-> FALSE, score |-> 0]]

---------------------------------------------------------------------------
(* TurnHandler *)

\* index (0-based) of the player pickCzar selects; -1 when there is no player
\* (selectedPlayer is undefined and the assignment throws)
pickCzar(turns, players) ==
    LET prevCzar == IF Len(turns) > 0 THEN turns[Len(turns)].czar ELSE Undef
        indexOfNewCzar == FindIndex(players, prevCzar) + 1
    IN  IF Len(players) = 0 THEN -1
        ELSE IF prevCzar \in {Undef, Null} THEN 0
        ELSE IF indexOfNewCzar > Len(players) - 1 THEN 0
        ELSE indexOfNewCzar

\* pickBlackCard with the random index drawn: the pool after the splice and the
\* id handed to cards.get
pickBlackCard(blackCards, index) ==
    LET rest == JsSplice1(blackCards, index)
    IN  [blackCards |-> rest, id |-> JsAt(rest, index)]

\* pickWhiteCard with the random index drawn
pickWhiteCard(whiteCards, index) ==
    LET rest == JsSplice1(whiteCards, index)
    IN  [whiteCards |-> rest, card |-> JsAt(rest, index)]

\* dealWhiteCards: every hand and pool the random draws can leave
RECURSIVE dealWhiteCards(_, _)
dealWhiteCards(cards, whiteCards) ==
    IF Len(cards) = HandSize
    THEN {[cards |-> cards, whiteCards |-> whiteCards]}
    ELSE UNION { LET pw == pickWhiteCard(whiteCards, index)
                 IN  dealWhiteCards(Append(cards, pw.card), pw.whiteCards)
                 : index \in getRandomIndex(Len(whiteCards) - 1) }

\* ensurePlayersHaveCards: the players are dealt in the order of the map
RECURSIVE ensurePlayersHaveCards(_, _, _)
ensurePlayersHaveCards(players, k, whiteCards) ==
    IF k > Len(players)
    THEN {[players |-> players, whiteCards |-> whiteCards]}
    ELSE UNION { ensurePlayersHaveCards(
                    [players EXCEPT ![k].cards = d.cards], k + 1, d.whiteCards)
                 : d \in dealWhiteCards(players[k].cards, whiteCards) }

\* emitCardsToPlayer: the games.deal event of a player; cards.get resolves the
\* ids of the hand it is given, an undefined entry resolves to no card
emitCardsToPlayer(player) ==
    [clientId |-> player.id, cards |-> SelectSeq(player.cards, LAMBDA c : c # Undef)]

\* the games.deal events of ensurePlayersHaveCards, one per player, for the
\* hands it has dealt
gamesDeal(players) == [k \in 1..Len(players) |-> emitCardsToPlayer(players[k])]

\* startTurn without the reset of the isCzar flags
startTurnKeepsFlags(g) ==
    LET cleared == g.players
        czarIx == pickCzar(g.turns, cleared)
        Failed == [ok |-> FALSE, players |-> g.players, whiteCards |-> g.whiteCards,
                   blackCards |-> g.blackCards, turnData |-> g.turnData]
    IN  IF czarIx < 0 THEN {Failed}
        ELSE LET withCzar == [cleared EXCEPT ![czarIx + 1].isCzar = TRUE]
                 czar == withCzar[czarIx + 1].id
             IN  UNION {
                   LET pb == pickBlackCard(g.blackCards, index)
                   IN  IF pb.id = Undef THEN {Failed}
                       ELSE { [ok |-> TRUE, players |-> d.players,
                               whiteCards |-> d.whiteCards, blackCards |-> pb.blackCards,
                               turnData |-> [czar |-> czar, blackCard |-> pb.id,
                                             turn |-> g.turnData.turn + 1]]
                              : d \in ensurePlayersHaveCards(withCzar, 1, g.whiteCards) }
                   : index \in getRandomIndex(Len(g.blackCards) - 1) }

\* startTurn up to its games.update: the fields it writes, or ok = FALSE when
\* pickCzar or cards.get throws (cards.get rejects a call without an id)
startTurn(g) ==
    LET cleared == [i \in 1..Len(g.players) |-> [g.players[i] EXCEPT !.isCzar = FALSE]]
        czarIx == pickCzar(g.turns, cleared)
        Failed == [ok |-> FALSE, players |-> g.players, whiteCards |-> g.whiteCards,
                   blackCards |-> g.blackCards, turnData |-> g.turnData]
    IN  IF czarIx < 0 THEN {Failed}
        ELSE LET withCzar == [cleared EXCEPT ![czarIx + 1].isCzar = TRUE]
                 czar == withCzar[czarIx + 1].id
             IN  UNION {
                   LET pb == pickBlackCard(g.blackCards, index)
                   IN  IF pb.id = Undef THEN {Failed}
                       ELSE { [ok |-> TRUE, players |-> d.players,
                               whiteCards |-> d.whiteCards, blackCards |-> pb.blackCards,
                               turnData |-> [czar |-> czar, blackCard |-> pb.id,
                                             turn |-> g.turnData.turn + 1]]
                              : d \in ensurePlayersHaveCards(withCzar, 1, g.whiteCards) }
                   : index \in getRandomIndex(Len(g.blackCards) - 1) }

\* submitCards without the comparison of cards.length with blackCard.pick
submitErrorAnyCount(g, clientId, cards) ==
    IF g.turnData.czar = clientId THEN "czar"
    ELSE IF clientId \in DOMAIN g.selectedCards THEN "alreadySubmitted"
    ELSE IF g.turnData.blackCard = Null THEN "typeError"
    ELSE IF ~HasPlayer(g.players, clientId) THEN "typeError"
    ELSE "ok"

\* the reason submitCards throws before its games.update, or "ok"
submitError(g, clientId, cards) ==
    IF g.turnData.czar = clientId THEN "czar"
    ELSE IF clientId \in DOMAIN g.selectedCards THEN "alreadySubmitted"
    ELSE IF g.turnData.blackCard = Null THEN "typeError"
    ELSE IF Pick(g.turnData.blackCard) # Len(cards) THEN "wrongCount"
    ELSE IF ~HasPlayer(g.players, clientId) THEN "typeError"
    ELSE "ok"

\* playersCards.filter(card => !cards.includes(card))
RECURSIVE FilterOut(_, _)
FilterOut(hand, cards) ==
    IF hand = <<>> THEN <<>>
    ELSE IF Head(hand) \in Range(cards) THEN FilterOut(Tail(hand), cards)
    ELSE <<Head(hand)>> \o FilterOut(Tail(hand), cards)

\* a variant of hasEveryoneSelected that is satisfied by a single submission
hasAnyoneSelected(g) ==
    \E i \in 1..Len(g.players) : g.players[i].id \in DOMAIN g.selectedCards

\* hasEveryoneSelected
hasEveryoneSelected(g) ==
    \A i \in 1..Len(g.players) :
        g.players[i].id \in DOMAIN g.selectedCards \/ g.turnData.czar = g.players[i].id

---------------------------------------------------------------------------
(* Game: the handlers as functions of the world they act on.                *)
(* W = [game, timers, events, hist]; g is the snapshot the handler was      *)
(* given, i the service instance it runs in.                                *)

NoTimer == [cb |-> "none", delay |-> 0]

NoReply == [op |-> "none", clientId |-> Null, outcome |-> "none"]

\* the world a step starts from; hist.reply holds the reply of the last step only
World ==
    [game |-> game, timers |-> timers, events |-> events,
     hist |-> [hist EXCEPT !.reply = NoReply]]

\* broker.emit('games.turn.updated', e)
emit(W, e) ==
    [W EXCEPT !.events = Append(@, e),
              !.hist.swEmits[e.turn] = IF e.state = SELECTING_WINNER THEN @ + 1 ELSE @]

\* the answer an action call returns to its caller
reply(W, op, clientId, outcome) ==
    [W EXCEPT !.hist.reply = [op |-> op, clientId |-> clientId, outcome |-> outcome]]

\* setGameTimeout: the previous timer of the instance is cleared and replaced
setGameTimeout(W, i, cb, delay) ==
    [W EXCEPT !.timers[i] = [cb |-> cb, delay |-> delay]]

\* if (this.gameTimeout[game._id]) clearTimeout(this.gameTimeout[game._id])
clearGameTimeout(W, i) == [W EXCEPT !.timers[i] = NoTimer]

\* a variant of onTurnUpdated that waits the grace delay in every state
onTurnUpdatedGraceOnly(W, i, e) ==
    IF ~Live(W.game) THEN W
    ELSE setGameTimeout([W EXCEPT !.game.gameState = e.state], i,
                        CASE e.state = TURN_SETUP -> "handleNextTurn"
                          [] e.state = PICKING_CARDS -> "handleWinnerSelection"
                          [] e.state = SELECTING_WINNER -> "handleNoWinner"
                          [] e.state = ENEDED -> "destroyGame",
                        IF e.state = TURN_SETUP /\ e.initializing THEN 0 ELSE GraceDelay)

\* onTurnUpdated: persist gameState, then arm the timer of the new state
onTurnUpdated(W, i, e) ==
    IF ~Live(W.game) THEN W
    ELSE LET W1 == [W EXCEPT !.game.gameState = e.state]
         IN  CASE e.state = TURN_SETUP ->
                    setGameTimeout(W1, i, "handleNextTurn",
                                   IF e.initializing THEN 0 ELSE GraceDelay)
               [] e.state = PICKING_CARDS ->
                    setGameTimeout(W1, i, "handleWinnerSelection", RoundTime)
               [] e.state = SELECTING_WINNER ->
                    setGameTimeout(W1, i, "handleNoWinner", RoundTime)
               [] e.state = ENEDED ->
                    setGameTimeout(W1, i, "destroyGame", RoundTime)

\* the tally of endGame without the branch that shares an equal score
RECURSIVE tallyLargestOnly(_, _, _)
tallyLargestOnly(players, ids, score) ==
    IF players = <<>> THEN ids
    ELSE LET pl == Head(players)
         IN  IF pl.score > score THEN tallyLargestOnly(Tail(players), <<pl.id>>, pl.score)
             ELSE tallyLargestOnly(Tail(players), ids, score)

\* the tally of endGame: the ids holding the largest score, in map order
RECURSIVE tallyWinners(_, _, _)
tallyWinners(players, ids, score) ==
    IF players = <<>> THEN ids
    ELSE LET pl == Head(players)
         IN  IF pl.score > score THEN tallyWinners(Tail(players), <<pl.id>>, pl.score)
             ELSE IF pl.score = score
                  THEN tallyWinners(Tail(players), Append(ids, pl.id), score)
                  ELSE tallyWinners(Tail(players), ids, score)

endGame(W, g, i) ==
    emit(clearGameTimeout(W, i),
         TurnSnapshot(g, ENEDED, EmptyMap, Null, tallyWinners(g.players, <<>>, 0),
                      <<>>, "", FALSE))

isTargetReached(g) == \E k \in 1..Len(g.players) : g.players[k].score >= Target

\* handleNoWinner: push the round on the snapshot's turns, write turns, publish
handleNoWinner(W, g, i, reason) ==
    LET W1 == clearGameTimeout(W, i)
        gameData == TurnSnapshot(g, TURN_SETUP, EmptyMap, Null, <<>>, <<>>, reason, FALSE)
    IN  IF ~Live(W1.game) THEN W1
        ELSE emit([W1 EXCEPT !.game.turns = Append(g.turns, gameData)], gameData)

handleWinnerSelection(W, g, i) ==
    LET W1 == clearGameTimeout(W, i)
    IN  IF DOMAIN g.selectedCards = {}
        THEN handleNoWinner(W1, g, i, "No one selected any cards. Everyone loses!")
        ELSE emit(W1, TurnSnapshot(g, SELECTING_WINNER, g.selectedCards, Null, <<>>,
                                   <<>>, "", FALSE))

\* handleNextTurn: every world the random draws of startTurn can leave
handleNextTurn(W, g, i) ==
    LET W1 == clearGameTimeout(W, i)
    IN  IF isTargetReached(g) THEN {endGame(W1, g, i)}
        ELSE { IF ~st.ok \/ ~Live(W1.game) THEN W1
               ELSE LET started == [g EXCEPT !.players = st.players,
                                             !.turnData = st.turnData]
                    IN  emit([W1 EXCEPT !.game.selectedCards = EmptyMap,
                                        !.game.players = st.players,
                                        !.game.whiteCards = st.whiteCards,
                                        !.game.blackCards = st.blackCards,
                                        !.game.turnData = st.turnData],
                             TurnSnapshot(started, PICKING_CARDS, EmptyMap, Null, <<>>,
                                          <<>>, "", FALSE))
               : st \in startTurn(g) }

\* onHandSubmitted up to the games.update of submitCards
onHandSubmittedError(g, clientId, cards) ==
    IF g.gameState # PICKING_CARDS THEN "notPicking"
    ELSE submitError(g, clientId, cards)

\* the games.update of submitCards: players.<id>.cards and selectedCards.<id>
submitCards(W, g, clientId, cards) ==
    LET newCards == FilterOut(PlayerOf(g.players, clientId).cards, cards)
        k == FindIndex(W.game.players, clientId) + 1
    IN  [W EXCEPT !.game.players[k].cards = newCards,
                  !.game.selectedCards = MapPut(@, clientId, cards)]

\* onHandSubmitted after the games.get of submitCards returned updatedGame
onHandSubmittedDone(W, updatedGame, i) ==
    IF hasEveryoneSelected(updatedGame)
    THEN handleWinnerSelection(W, updatedGame, i)
    ELSE W

winnerError(g, winner, clientId) ==
    IF clientId # g.turnData.czar THEN "notCzar"
    ELSE IF g.gameState # SELECTING_WINNER THEN "notSelecting"
    ELSE IF winner \notin DOMAIN g.selectedCards THEN "noCards"
    ELSE "ok"

onWinnerSelected(W, g, i, winner, clientId) ==
    LET W1 == clearGameTimeout(W, i)
    IN  IF winnerError(g, winner, clientId) # "ok" \/ ~Live(W1.game)
        THEN reply(W1, "winner", clientId, "rejected")
        ELSE LET players == [k \in 1..Len(g.players) |->
                                IF g.players[k].id = winner
                                THEN [g.players[k] EXCEPT !.score = @ + 1]
                                ELSE g.players[k]]
                 gameData == TurnSnapshot([g EXCEPT !.players = players], TURN_SETUP,
                                          g.selectedCards, winner, <<>>,
                                          g.selectedCards[winner], "", FALSE)
             IN  reply(emit([W1 EXCEPT !.game.turns = Append(g.turns, gameData),
                                       !.game.players = players,
                                       !.hist.awards[g.turnData.turn] =
                                           IF HasPlayer(g.players, winner)
                                           THEN @ + 1 ELSE @],
                            gameData),
                       "winner", clientId, "accepted")

destroyGame(W) == [W EXCEPT !.game = NoGame("removed")]

\* onPlayerLeave without the call of handleNoWinner for a judge
onPlayerLeaveKeepsRound(W, g, i, playerId) ==
    IF ~Live(W.game) THEN W
    ELSE LET rest == SelectSeq(W.game.players, LAMBDA pl : pl.id # playerId)
             W1 == [W EXCEPT !.game.players = rest]
         IN  IF rest = <<>> THEN destroyGame(W1) ELSE W1

\* a variant of onPlayerLeave that ends the round whoever leaves
onPlayerLeaveEndsRound(W, g, i, playerId) ==
    IF ~Live(W.game) THEN W
    ELSE LET rest == SelectSeq(W.game.players, LAMBDA pl : pl.id # playerId)
             W1 == [W EXCEPT !.game.players = rest]
         IN  IF rest = <<>> THEN destroyGame(W1)
             ELSE handleNoWinner(W1, W1.game, i, "The Czar left the game")

\* onPlayerLeave: $unset of the player, then destroy or end the judge's round
onPlayerLeave(W, g, i, playerId) ==
    IF ~Live(W.game) THEN W
    ELSE LET rest == SelectSeq(W.game.players, LAMBDA pl : pl.id # playerId)
             W1 == [W EXCEPT !.game.players = rest]
         IN  IF rest = <<>> THEN destroyGame(W1)
             ELSE IF ~HasPlayer(g.players, playerId) THEN W1
             ELSE IF PlayerOf(g.players, playerId).isCzar
                  THEN handleNoWinner(W1, W1.game, i, "The Czar left the game")
                  ELSE W1

\* onPlayerJoin: games.update of players.<id>
onPlayerJoin(W, g, playerId) ==
    LET newPlayer == [id |-> playerId, cards |-> <<>>, isCzar |-> FALSE, score |-> 0]
        k == FindIndex(W.game.players, playerId) + 1
    IN  IF HasPlayer(g.players, playerId) \/ ~Live(W.game) THEN W
        ELSE IF k > 0 THEN [W EXCEPT !.game.players[k] = newPlayer]
        ELSE [W EXCEPT !.game.players = Append(@, newPlayer)]

\* onGameStart: fetchCards, games.create, rooms.update, then the initial
\* games.turn.updated.  When decks.get rejects (~decksFound) or rooms.update
\* rejects (~roomUpdated) the rest of the chain is skipped and the catch at its
\* end logs the error and resolves.
onGameStart(W, roomPlayers, decksFound, roomUpdated) ==
    LET created == [NoGame("live") EXCEPT !.players = initalizePlayers(roomPlayers),
                                          !.whiteCards = WhiteDeck,
                                          !.blackCards = BlackDeck]
    IN  IF ~decksFound THEN W
        ELSE IF ~roomUpdated THEN [W EXCEPT !.game = created]
        ELSE emit([W EXCEPT !.game = created],
                  TurnSnapshot(created, TURN_SETUP, EmptyMap, Null, <<>>, <<>>, "", TRUE))

---------------------------------------------------------------------------
(* The state machine *)

Idle == [op |-> "idle"]
IdleSlots == {s \in 1..MaxProcs : procs[s].op = "idle"}
\* a handler invocation that has read its snapshot g and has yet to act on it
Invocation(op, stage, i, clientId, cards, winner) ==
    [op |-> op, stage |-> stage, inst |-> i, g |-> game,
     clientId |-> clientId, cards |-> cards, winner |-> winner]
Begin(pr) ==
    /\ IdleSlots # {}
    /\ procs' = [procs EXCEPT ![CHOOSE s \in IdleSlots : \A t \in IdleSlots : s <= t] = pr]
Finish(s) == procs' = [procs EXCEPT ![s] = Idle]

Bounded(W) ==
    /\ Len(W.events) <= MaxEvents
    /\ Len(W.game.turns) <= W.hist.cap
    /\ W.game.turnData.turn <= MaxTurn

ApplyWorld(W) ==
    /\ Bounded(W)
    /\ game' = W.game
    /\ timers' = W.timers
    /\ events' = W.events
    /\ hist' = W.hist

Init ==
    /\ game = NoGame("none")
    /\ timers = [i \in Inst |-> NoTimer]
    /\ events = <<>>
    /\ procs = [s \in 1..MaxProcs |-> Idle]
    /\ hist = [reply |-> NoReply, swEmits |-> [t \in 0..MaxTurn |-> 0],
               awards |-> [t \in 0..MaxTurn |-> 0], churn |-> 0,
               cap |-> MaxHistory]

\* games.start without the comparison of room.host with the caller
StartGameByAnyone(caller, roomPlayers, decksFound, roomUpdated) ==
    /\ game.doc = "none"
    /\ IF Len(roomPlayers) < 2
       THEN ApplyWorld(reply(World, "start", caller, "rejected"))
       ELSE ApplyWorld(reply(onGameStart(World, roomPlayers, decksFound, roomUpdated),
                             "start", caller, "accepted"))
    /\ UNCHANGED procs

\* games.start by caller, rooms.get returning a room with roomPlayers, decks.get
\* resolving (decksFound) or rejecting, rooms.update resolving (roomUpdated) or
\* rejecting
StartGame(caller, roomPlayers, decksFound, roomUpdated) ==
    /\ game.doc = "none"
    /\ IF Len(roomPlayers) < 2 \/ caller # Host
       THEN ApplyWorld(reply(World, "start", caller, "rejected"))
       ELSE ApplyWorld(reply(onGameStart(World, roomPlayers, decksFound, roomUpdated),
                             "start", caller, "accepted"))
    /\ UNCHANGED procs

\* a games.turn.updated event reaches instance i
TurnUpdated(k, i) ==
    /\ k \in 1..Len(events)
    /\ ApplyWorld(onTurnUpdated([World EXCEPT !.events = RemoveAt(@, k)], i, events[k]))
    /\ UNCHANGED procs

\* the timer of instance i fires: games.get, then the callback is due
TimerFires(i) ==
    /\ timers[i].cb # "none"
    /\ timers[i].cb = "handleNextTurn" =>
          game.turnData.turn < MaxTurn \/ isTargetReached(game)
    /\ timers[i].cb = "handleNoWinner" => Len(game.turns) < hist.cap
    /\ timers' = [timers EXCEPT ![i] = NoTimer]
    /\ IF Live(game)
       THEN Begin(Invocation(timers[i].cb, "run", i, Null, <<>>, Null))
       ELSE UNCHANGED procs
    /\ hist' = World.hist
    /\ UNCHANGED <<game, events>>

NextTurnRuns(s) ==
    /\ procs[s].op = "handleNextTurn"
    /\ \E W \in handleNextTurn(World, procs[s].g, procs[s].inst) : ApplyWorld(W)
    /\ Finish(s)

WinnerSelectionRuns(s) ==
    /\ procs[s].op = "handleWinnerSelection"
    /\ ApplyWorld(handleWinnerSelection(World, procs[s].g, procs[s].inst))
    /\ Finish(s)

NoWinnerRuns(s) ==
    /\ procs[s].op = "handleNoWinner"
    /\ ApplyWorld(handleNoWinner(World, procs[s].g, procs[s].inst,
                                 "The Czar did not pick a winner! They have failed us all..."))
    /\ Finish(s)

DestroyRuns(s) ==
    /\ procs[s].op = "destroyGame"
    /\ ApplyWorld(destroyGame(World))
    /\ Finish(s)

\* the card lists a client sends with games.submit
SubmitInputs(clientId) ==
    LET hand == IF HasPlayer(game.players, clientId)
                THEN FilterOut(PlayerOf(game.players, clientId).cards, <<Undef>>)
                ELSE <<>>
    IN  {SubSeq(hand, 1, n) : n \in 1..Len(hand)}
        \cup {<<WhiteDeck[NumWhite]>>}
        \cup {<<hand[1], hand[1]>> : n \in 1..(IF Len(hand) > 0 THEN 1 ELSE 0)}

\* games.submit: getGameMatchingRoom and the checks of onHandSubmitted and
\* submitCards on the game it returned; a call they reject ends here
Submit(i, clientId, cards) ==
    /\ Live(game)
    /\ IF onHandSubmittedError(game, clientId, cards) # "ok"
       THEN /\ ApplyWorld(reply(World, "submit", clientId, "rejected"))
            /\ UNCHANGED procs
       ELSE /\ Begin(Invocation("submit", "write", i, clientId, cards, Null))
            /\ hist' = World.hist
            /\ UNCHANGED <<game, timers, events>>

\* submitCards: its games.update
SubmitWrites(s) ==
    /\ procs[s].op = "submit" /\ procs[s].stage = "write"
    /\ IF ~Live(game)
       THEN /\ ApplyWorld(reply(World, "submit", procs[s].clientId, "rejected"))
            /\ Finish(s)
       ELSE /\ HasPlayer(game.players, procs[s].clientId)
            /\ ApplyWorld(submitCards(World, procs[s].g, procs[s].clientId, procs[s].cards))
            /\ procs' = [procs EXCEPT ![s].stage = "reread"]

\* onHandSubmitted: the games.get of submitCards and the round-complete check
SubmitReturns(s) ==
    /\ procs[s].op = "submit" /\ procs[s].stage = "reread"
    /\ IF Live(game)
       THEN ApplyWorld(reply(onHandSubmittedDone(World, game, procs[s].inst),
                             "submit", procs[s].clientId, "accepted"))
       ELSE ApplyWorld(reply(World, "submit", procs[s].clientId, "rejected"))
    /\ Finish(s)

\* games.winner: getGameMatchingRoom; a call the checks of onWinnerSelected
\* reject on the game it returned ends here
Winner(i, clientId, winnerId) ==
    /\ Live(game)
    /\ Len(game.turns) < hist.cap
    /\ IF winnerError(game, winnerId, clientId) # "ok"
       THEN /\ ApplyWorld(onWinnerSelected(World, game, i, winnerId, clientId))
            /\ UNCHANGED procs
       ELSE /\ Begin(Invocation("winner", "write", i, clientId, <<>>, winnerId))
            /\ hist' = World.hist
            /\ UNCHANGED <<game, timers, events>>

\* onWinnerSelected of a call that passed the checks: the games.update and the event
WinnerRuns(s) ==
    /\ procs[s].op = "winner"
    /\ ApplyWorld(onWinnerSelected(World, procs[s].g, procs[s].inst,
                                   procs[s].winner, procs[s].clientId))
    /\ Finish(s)

\* rooms.player.left: getGameMatchingRoom.  A client with a submission in
\* flight is not followed through a leave.
PlayerLeft(i, clientId) ==
    /\ Live(game)
    /\ hist.churn < MaxChurn
    /\ Len(game.turns) < hist.cap
    /\ \A s \in 1..MaxProcs : procs[s].op = "submit" => procs[s].clientId # clientId
    /\ Begin(Invocation("leave", "write", i, clientId, <<>>, Null))
    /\ hist' = [World.hist EXCEPT !.churn = @ + 1]
    /\ UNCHANGED <<game, timers, events>>

PlayerLeftRuns(s) ==
    /\ procs[s].op = "leave"
    /\ ApplyWorld(onPlayerLeave(World, procs[s].g, procs[s].inst, procs[s].clientId))
    /\ Finish(s)

\* rooms.player.joined: getGameMatchingRoom
PlayerJoined(i, clientId) ==
    /\ Live(game)
    /\ hist.churn < MaxChurn
    /\ Begin(Invocation("join", "write", i, clientId, <<>>, Null))
    /\ hist' = [World.hist EXCEPT !.churn = @ + 1]
    /\ UNCHANGED <<game, timers, events>>

PlayerJoinedRuns(s) ==
    /\ procs[s].op = "join"
    /\ ApplyWorld(onPlayerJoin(World, procs[s].g, procs[s].clientId))
    /\ Finish(s)

\* rooms.removed: getGameMatchingRoom and games.remove
RoomRemoved ==
    /\ Live(game)
    /\ ApplyWorld(destroyGame(World))
    /\ UNCHANGED procs

Next ==
    \/ \E caller \in Clients, roomPlayers \in Rooms, decksFound \in BOOLEAN,
          roomUpdated \in BOOLEAN :
          StartGame(caller, roomPlayers, decksFound, roomUpdated)
    \/ \E k \in 1..MaxEvents, i \in Inst : TurnUpdated(k, i)
    \/ \E i \in Inst : TimerFires(i)
    \/ \E s \in 1..MaxProcs : NextTurnRuns(s)
    \/ \E s \in 1..MaxProcs : WinnerSelectionRuns(s)
    \/ \E s \in 1..MaxProcs : NoWinnerRuns(s)
    \/ \E s \in 1..MaxProcs : DestroyRuns(s)
    \/ \E i \in Inst, c \in Clients : \E cards \in SubmitInputs(c) : Submit(i, c, cards)
    \/ \E s \in 1..MaxProcs : SubmitWrites(s)
    \/ \E s \in 1..MaxProcs : SubmitReturns(s)
    \/ \E i \in Inst, c \in Clients, w \in Clients : Winner(i, c, w)
    \/ \E s \in 1..MaxProcs : WinnerRuns(s)

\* the game with a fixed set of players
Spec == Init /\ [][Next]_vars

\* the game with players joining and leaving and the room being removed
NextChurn ==
    \/ Next
    \/ \E i \in Inst, c \in Clients : PlayerLeft(i, c)
    \/ \E s \in 1..MaxProcs : PlayerLeftRuns(s)
    \/ \E i \in Inst, c \in Clients : PlayerJoined(i, c)
    \/ \E s \in 1..MaxProcs : PlayerJoinedRuns(s)
    \/ RoomRemoved

SpecChurn == Init /\ [][NextChurn]_vars

\* a game at the end of round turn, its grace timer armed: the round ended with
\* no winner, the players hold the scores of the rounds before and full hands,
\* and blackCards is what the rooms' decks have left
RoundEnded(turn, scores, blackCards) ==
    LET czar == RoomPlayers[((turn - 1) % Len(RoomPlayers)) + 1]
        players == [k \in 1..Len(RoomPlayers) |->
                      [id |-> RoomPlayers[k],
                       cards |-> SubSeq(WhiteDeck, (k - 1) * HandSize + 1, k * HandSize),
                       isCzar |-> RoomPlayers[k] = czar, score |-> scores[k]]]
        g == [NoGame("live") EXCEPT
                !.players = players,
                !.whiteCards = SubSeq(WhiteDeck, Len(RoomPlayers) * HandSize + 1, NumWhite),
                !.blackCards = blackCards,
                !.turnData = [czar |-> czar, blackCard |-> BlackDeck[NumBlack], turn |-> turn]]
    IN  [g EXCEPT !.turns = <<TurnSnapshot(g, TURN_SETUP, EmptyMap, Null, <<>>, <<>>,
                                           "No one selected any cards. Everyone loses!",
                                           FALSE)>>]

InitTurnSetup ==
    /\ \E turn \in 1..MaxTurn, n \in 0..NumBlack :
       \E scores \in [1..Len(RoomPlayers) -> 0..Target] :
          game = RoundEnded(turn, scores, SubSeq(BlackDeck, 1, n))
    /\ timers = [i \in Inst |-> IF i = 1 THEN [cb |-> "handleNextTurn", delay |-> GraceDelay]
                                 ELSE NoTimer]
    /\ events = <<>>
    /\ procs = [s \in 1..MaxProcs |-> Idle]
    /\ hist = [reply |-> NoReply, swEmits |-> [t \in 0..MaxTurn |-> 0],
               awards |-> [t \in 0..MaxTurn |-> 0], churn |-> 0,
               cap |-> MaxHistory]

NextTurnSetup ==
    \/ \E i \in Inst : TimerFires(i)
    \/ \E s \in 1..MaxProcs : NextTurnRuns(s)
    \/ \E k \in 1..MaxEvents, i \in Inst : TurnUpdated(k, i)
    \/ \E s \in 1..MaxProcs : DestroyRuns(s)

\* the next-turn step and what follows it, from every end of a round
SpecTurnSetup == InitTurnSetup /\ [][NextTurnSetup]_vars

\* the end of a round in which every player but the judge played the hand:
\* the played cards are gone and nWhite cards are left in whiteCards
RoundPlayed(turn, scores, blackCards, nWhite) ==
    LET g == RoundEnded(turn, scores, blackCards)
    IN  [g EXCEPT !.players = [k \in 1..Len(g.players) |->
                                 IF g.players[k].isCzar THEN g.players[k]
                                 ELSE [g.players[k] EXCEPT !.cards = <<>>]],
                  !.whiteCards = SubSeq(g.whiteCards, 1, nWhite),
                  !.turns = <<[g.turns[1] EXCEPT !.errorMessage =
                      "The Czar did not pick a winner! They have failed us all..."]>>]

InitDeal ==
    /\ \E turn \in 1..MaxTurn, n \in 0..NumBlack, nWhite \in 0..(NumWhite - 2 * HandSize) :
       \E scores \in [1..Len(RoomPlayers) -> 0..Target] :
          game = RoundPlayed(turn, scores, SubSeq(BlackDeck, 1, n), nWhite)
    /\ timers = [i \in Inst |-> IF i = 1 THEN [cb |-> "handleNextTurn", delay |-> GraceDelay]
                                 ELSE NoTimer]
    /\ events = <<>>
    /\ procs = [s \in 1..MaxProcs |-> Idle]
    /\ hist = [reply |-> NoReply, swEmits |-> [t \in 0..MaxTurn |-> 0],
               awards |-> [t \in 0..MaxTurn |-> 0], churn |-> 0,
               cap |-> MaxHistory]

\* the next-turn step from the end of a round whose hands were played
SpecDeal == InitDeal /\ [][NextTurnSetup]_vars

\* the games a first round can be in: every document startTurn can leave of the
\* game onGameStart created for the room
RoundStarted ==
    LET created == [NoGame("live") EXCEPT !.players = initalizePlayers(RoomPlayers),
                                          !.whiteCards = WhiteDeck,
                                          !.blackCards = BlackDeck]
    IN  { [created EXCEPT !.players = st.players, !.whiteCards = st.whiteCards,
                          !.blackCards = st.blackCards, !.turnData = st.turnData,
                          !.gameState = PICKING_CARDS]
          : st \in {t \in startTurn(created) : t.ok} }

\* the same games once every player but the judge has played the hand
RoundJudging ==
    { LET p == CHOOSE c \in Range(RoomPlayers) : c # g.turnData.czar
          W == submitCards([game |-> g], g, p, PlayerOf(g.players, p).cards)
      IN  [W.game EXCEPT !.gameState = SELECTING_WINNER]
      : g \in {h \in RoundStarted :
                 \A c \in Range(RoomPlayers) \ {h.turnData.czar} :
                    onHandSubmittedError(h, c, PlayerOf(h.players, c).cards) = "ok"} }

\* a first round under way: the round timer or the judging timer is armed
InitRound ==
    /\ \/ /\ game \in RoundStarted
          /\ timers = [i \in Inst |-> IF i = 1
                         THEN [cb |-> "handleWinnerSelection", delay |-> RoundTime]
                         ELSE NoTimer]
       \/ /\ game \in RoundJudging
          /\ timers = [i \in Inst |-> IF i = 1
                         THEN [cb |-> "handleNoWinner", delay |-> RoundTime]
                         ELSE NoTimer]
    /\ events = <<>>
    /\ procs = [s \in 1..MaxProcs |-> Idle]
    /\ hist = [reply |-> NoReply, swEmits |-> [t \in 0..MaxTurn |-> 0],
               awards |-> [t \in 0..MaxTurn |-> 0], churn |-> 0,
               cap |-> MaxHistory]

NextLeave ==
    \/ \E i \in Inst, c \in Clients : PlayerLeft(i, c)
    \/ \E s \in 1..MaxProcs : PlayerLeftRuns(s)
    \/ \E i \in Inst, c \in Clients : PlayerJoined(i, c)
    \/ \E s \in 1..MaxProcs : PlayerJoinedRuns(s)
    \/ RoomRemoved
    \/ \E k \in 1..MaxEvents, i \in Inst : TurnUpdated(k, i)
    \/ \E i \in Inst : TimerFires(i)
    \/ \E s \in 1..MaxProcs : NextTurnRuns(s)
    \/ \E s \in 1..MaxProcs : WinnerSelectionRuns(s)
    \/ \E s \in 1..MaxProcs : NoWinnerRuns(s)

\* players joining and leaving and the room being removed while a round runs
SpecLeave == InitRound /\ [][NextLeave]_vars

\* the steps the service takes by itself: timers firing, events delivered,
\* handlers running to their end
TimerStep == \E i \in Inst : TimerFires(i)
EventStep == \E k \in 1..MaxEvents, i \in Inst : TurnUpdated(k, i)
HandlerStep ==
    \E s \in 1..MaxProcs :
       \/ NextTurnRuns(s) \/ WinnerSelectionRuns(s) \/ NoWinnerRuns(s) \/ DestroyRuns(s)
       \/ SubmitWrites(s) \/ SubmitReturns(s) \/ WinnerRuns(s)

NextProgress ==
    \/ \E k \in 1..MaxEvents, i \in Inst : TurnUpdated(k, i)
    \/ \E i \in Inst : TimerFires(i)
    \/ \E s \in 1..MaxProcs : NextTurnRuns(s)
    \/ \E s \in 1..MaxProcs : WinnerSelectionRuns(s)
    \/ \E s \in 1..MaxProcs : NoWinnerRuns(s)
    \/ \E s \in 1..MaxProcs : DestroyRuns(s)
    \/ \E i \in Inst, c \in Clients : \E cards \in SubmitInputs(c) : Submit(i, c, cards)
    \/ \E s \in 1..MaxProcs : SubmitWrites(s)
    \/ \E s \in 1..MaxProcs : SubmitReturns(s)
    \/ \E i \in Inst, c \in Clients, w \in Clients : Winner(i, c, w)
    \/ \E s \in 1..MaxProcs : WinnerRuns(s)

\* a first round under way and every call of the players, where an armed
\* timer fires, a published event is delivered and a handler runs to its end;
\* the calls of the players are under no obligation
SpecProgress ==
    /\ InitRound
    /\ [][NextProgress]_vars
    /\ WF_vars(TimerStep)
    /\ WF_vars(EventStep)
    /\ WF_vars(HandlerStep)

\* the end of a first round nobody won while a games.submit call of the player
\* who was not its judge is still in flight: the call read the game during the
\* round and passed the checks, its games.update is yet to come.  The
\* behaviour may record the entry of a second round.
InitSecondRound ==
    /\ \E n \in 1..NumBlack :
          game = RoundEnded(1, [k \in 1..Len(RoomPlayers) |-> 0], SubSeq(BlackDeck, 1, n))
    /\ timers = [i \in Inst |-> IF i = 1 THEN [cb |-> "handleNextTurn", delay |-> GraceDelay]
                                 ELSE NoTimer]
    /\ events = <<>>
    /\ procs = [s \in 1..MaxProcs |->
                  IF s = 1
                  THEN [op |-> "submit", stage |-> "write", inst |-> 1,
                        g |-> [game EXCEPT !.turns = <<>>, !.gameState = PICKING_CARDS],
                        clientId |-> RoomPlayers[2],
                        cards |-> PlayerOf(game.players, RoomPlayers[2]).cards,
                        winner |-> Null]
                  ELSE Idle]
    /\ hist = [reply |-> NoReply, swEmits |-> [t \in 0..MaxTurn |-> 0],
               awards |-> [t \in 0..MaxTurn |-> 0], churn |-> 0,
               cap |-> MaxHistory + 1]

\* a second round with a call of the first round still in flight
SpecSecondRound == InitSecondRound /\ [][NextProgress]_vars

\* a room of three players
RoomOfThree == <<"a", "b", "c">>

\* the games a first round of the room of three can be in
RoundOfThree ==
    LET created == [NoGame("live") EXCEPT !.players = initalizePlayers(RoomOfThree),
                                          !.whiteCards = WhiteDeck,
                                          !.blackCards = BlackDeck]
    IN  { [created EXCEPT !.players = st.players, !.whiteCards = st.whiteCards,
                          !.blackCards = st.blackCards, !.turnData = st.turnData,
                          !.gameState = PICKING_CARDS]
          : st \in {t \in startTurn(created) : t.ok} }

InitThree ==
    /\ game \in RoundOfThree
    /\ timers = [i \in Inst |-> IF i = 1
                   THEN [cb |-> "handleWinnerSelection", delay |-> RoundTime]
                   ELSE NoTimer]
    /\ events = <<>>
    /\ procs = [s \in 1..MaxProcs |-> Idle]
    /\ hist = [reply |-> NoReply, swEmits |-> [t \in 0..MaxTurn |-> 0],
               awards |-> [t \in 0..MaxTurn |-> 0], churn |-> 0,
               cap |-> MaxHistory]

NextThree ==
    \/ \E k \in 1..MaxEvents, i \in Inst : TurnUpdated(k, i)
    \/ \E i \in Inst : TimerFires(i)
    \/ \E s \in 1..MaxProcs : WinnerSelectionRuns(s)
    \/ \E s \in 1..MaxProcs : NoWinnerRuns(s)
    \/ \E i \in Inst, c \in Clients : \E cards \in SubmitInputs(c) : Submit(i, c, cards)
    \/ \E s \in 1..MaxProcs : SubmitWrites(s)
    \/ \E s \in 1..MaxProcs : SubmitReturns(s)

\* the submissions and the timers of a first round of three players
SpecThree == InitThree /\ [][NextThree]_vars

---------------------------------------------------------------------------
(* The timer table of one instance in full.  In SpecTimers the variable      *)
(* timers holds Game.gameTimeout for two game ids (the handle setTimeout      *)
(* returned last, 0 when there is none), the timeouts Node has pending and    *)
(* the handles whose callback ran; Spec keeps one slot of it per instance.    *)

PendingOf(T, gameId) == {t \in T.pending : t.gameId = gameId}

\* setGameTimeout without the clearTimeout of the previous handle
setTimeoutOnly(T, gameId) ==
    [T EXCEPT !.gameTimeout[gameId] = T.next,
              !.pending = @ \cup {[handle |-> T.next, gameId |-> gameId]},
              !.next = @ + 1]

\* clearTimeout(this.gameTimeout[gameId]); of a handle that ran it does nothing
clearTimeoutOf(T, gameId) ==
    [T EXCEPT !.pending = {t \in @ : t.handle # T.gameTimeout[gameId]}]

\* setGameTimeout(gameId, cb, timeout)
armGameTimeout(T, gameId) ==
    LET cleared == IF T.gameTimeout[gameId] # 0 THEN clearTimeoutOf(T, gameId) ELSE T
    IN  [cleared EXCEPT !.gameTimeout[gameId] = T.next,
                        !.pending = @ \cup {[handle |-> T.next, gameId |-> gameId]},
                        !.next = @ + 1]

InitTimers ==
    /\ timers = [gameTimeout |-> [gameId \in GameIds |-> 0], pending |-> {},
                 ran |-> {}, next |-> 1]
    /\ game = NoGame("none")
    /\ events = <<>>
    /\ procs = [s \in 1..MaxProcs |-> Idle]
    /\ hist = [reply |-> NoReply, swEmits |-> [t \in 0..MaxTurn |-> 0],
               awards |-> [t \in 0..MaxTurn |-> 0], churn |-> 0,
               cap |-> MaxHistory]

\* onTurnUpdated arms the timer of a game
ArmTimer(gameId) ==
    /\ timers.next <= MaxArms
    /\ timers' = armGameTimeout(timers, gameId)
    /\ UNCHANGED <<game, events, procs, hist>>

\* a handler clears the timer of its game
ClearTimer(gameId) ==
    /\ timers.gameTimeout[gameId] # 0
    /\ timers' = clearTimeoutOf(timers, gameId)
    /\ UNCHANGED <<game, events, procs, hist>>

\* Node runs the callback of a pending timeout
TimerExpires(t) ==
    /\ t \in timers.pending
    /\ timers' = [timers EXCEPT !.pending = @ \ {t}, !.ran = @ \cup {t}]
    /\ UNCHANGED <<game, events, procs, hist>>

NextTimers ==
    \/ \E gameId \in GameIds : ArmTimer(gameId)
    \/ \E gameId \in GameIds : ClearTimer(gameId)
    \/ \E h \in 1..MaxArms, gameId \in GameIds :
          TimerExpires([handle |-> h, gameId |-> gameId])

SpecTimers == InitTimers /\ [][NextTimers]_vars

---------------------------------------------------------------------------
(* The games collection of one room in full.  In SpecStart the variable game *)
(* holds the Game documents whose room is the room, in the order games.find   *)
(* returns them, and the number of documents games.create has stored; an      *)
(* event carries the id of its game and timers holds Game.gameTimeout by game *)
(* id.  Spec keeps the one document getGameMatchingRoom returns (games[0]).   *)

HasDoc(docs, id) == \E k \in 1..Len(docs) : docs[k].id = id
DocOf(docs, id) == docs[CHOOSE k \in 1..Len(docs) : docs[k].id = id]

\* the world a handler of the game id acts on
WorldOf(d, id) ==
    [game |-> d, timers |-> [i \in Inst |-> timers[id]], events |-> <<>>,
     hist |-> [hist EXCEPT !.reply = NoReply]]

\* the collection, the timer of the game id and the events after a handler of
\* the game id has left the world W
StoreWorld(W, id) ==
    /\ game' = [game EXCEPT !.docs = [k \in 1..Len(@) |->
                                        IF @[k].id = id THEN W.game ELSE @[k]]]
    /\ timers' = [timers EXCEPT ![id] = W.timers[1]]
    /\ events' = events \o [k \in 1..Len(W.events) |-> [gameId |-> id, e |-> W.events[k]]]
    /\ hist' = W.hist

InitStart ==
    /\ game = [docs |-> <<>>, created |-> 0]
    /\ timers = [id \in 1..MaxGames |-> NoTimer]
    /\ events = <<>>
    /\ procs = [s \in 1..MaxProcs |-> Idle]
    /\ hist = [reply |-> NoReply, swEmits |-> [t \in 0..MaxTurn |-> 0],
               awards |-> [t \in 0..MaxTurn |-> 0], churn |-> 0,
               cap |-> MaxHistory]

\* games.start: startGame and onGameStart; games.create stores a new document
\* whatever the collection holds for the room
StartCall(caller, roomPlayers, decksFound, roomUpdated) ==
    /\ game.created < MaxGames
    /\ IF Len(roomPlayers) < 2 \/ caller # Host
       THEN /\ hist' = reply(World, "start", caller, "rejected").hist
            /\ UNCHANGED <<game, timers, events>>
       ELSE LET id == game.created + 1
                W == reply(onGameStart(WorldOf(NoGame("none"), id), roomPlayers,
                                       decksFound, roomUpdated),
                           "start", caller, "accepted")
            IN  /\ game' = IF Live(W.game)
                           THEN [docs |-> Append(game.docs, [id |-> id] @@ W.game),
                                 created |-> id]
                           ELSE game
                /\ events' = events \o [k \in 1..Len(W.events) |->
                                          [gameId |-> id, e |-> W.events[k]]]
                /\ hist' = W.hist
                /\ UNCHANGED timers
    /\ UNCHANGED procs

\* a games.turn.updated event reaches the instance: onTurnUpdated of its game
TurnUpdatedOf(k) ==
    /\ k \in 1..Len(events)
    /\ LET id == events[k].gameId
       IN  IF HasDoc(game.docs, id)
           THEN LET W == onTurnUpdated(WorldOf(DocOf(game.docs, id), id), 1, events[k].e)
                IN  /\ game' = [game EXCEPT !.docs = [n \in 1..Len(@) |->
                                        IF @[n].id = id THEN W.game ELSE @[n]]]
                    /\ timers' = [timers EXCEPT ![id] = W.timers[1]]
                    /\ hist' = W.hist
           ELSE /\ hist' = World.hist
                /\ UNCHANGED <<game, timers>>
    /\ events' = RemoveAt(events, k)
    /\ UNCHANGED procs

\* the next-turn timer of the game id fires: games.get, then handleNextTurn
FirstTurnOf(id) ==
    /\ timers[id].cb = "handleNextTurn"
    /\ IF HasDoc(game.docs, id)
       THEN \E W \in handleNextTurn(WorldOf(DocOf(game.docs, id), id),
                                    DocOf(game.docs, id), 1) : StoreWorld(W, id)
       ELSE /\ timers' = [timers EXCEPT ![id] = NoTimer]
            /\ hist' = World.hist
            /\ UNCHANGED <<game, events>>
    /\ UNCHANGED procs

\* rooms.removed: handleRoomRemoved removes the document getGameMatchingRoom
\* returns
RoomRemovedFirst ==
    /\ game.docs # <<>>
    /\ game' = [game EXCEPT !.docs = Tail(@)]
    /\ hist' = World.hist
    /\ UNCHANGED <<timers, events, procs>>

NextStart ==
    \/ \E caller \in Clients, roomPlayers \in Rooms, decksFound \in BOOLEAN,
          roomUpdated \in BOOLEAN :
          StartCall(caller, roomPlayers, decksFound, roomUpdated)
    \/ \E k \in 1..MaxEvents : TurnUpdatedOf(k)
    \/ \E id \in 1..MaxGames : FirstTurnOf(id)
    \/ RoomRemovedFirst

\* games.start calls for one room, the first round of the games they create
\* and the removal of the room
SpecStart == InitStart /\ [][NextStart]_vars

---------------------------------------------------------------------------
(* Properties *)

TimerCallbacks == {"handleNextTurn", "handleWinnerSelection", "handleNoWinner", "destroyGame"}

\* the game state in which onTurnUpdated arms the timer of a callback
ArmedState(cb) ==
    CASE cb = "handleNextTurn" -> TURN_SETUP
      [] cb = "handleWinnerSelection" -> PICKING_CARDS
      [] cb = "handleNoWinner" -> SELECTING_WINNER
      [] cb = "destroyGame" -> ENEDED

\* slot s held a handler invocation that this step ran to its end
Ran(s, op) == procs[s].op = op /\ procs'[s] = Idle

HandSum(players) ==
    LET RECURSIVE Sum(_)
        Sum(k) == IF k = 0 THEN 0 ELSE Len(players[k].cards) + Sum(k - 1)
    IN  Sum(Len(players))

SelectedSum(selected) ==
    LET RECURSIVE Sum(_)
        Sum(D) == IF D = {} THEN 0
                  ELSE LET d == CHOOSE x \in D : TRUE
                       IN  Len(selected[d]) + Sum(D \ {d})
    IN  Sum(DOMAIN selected)

\* the places of the document that hold the white card id w
WhitePlaces(g, w) ==
    {<<"pool", "pool", j>> : j \in {j \in 1..Len(g.whiteCards) : g.whiteCards[j] = w}}
    \cup UNION {{<<"hand", g.players[k].id, j>> :
                    j \in {j \in 1..Len(g.players[k].cards) : g.players[k].cards[j] = w}} :
                 k \in 1..Len(g.players)}
    \cup UNION {{<<"selected", c, j>> :
                    j \in {j \in 1..Len(g.selectedCards[c]) : g.selectedCards[c][j] = w}} :
                 c \in DOMAIN g.selectedCards}

\* C1: a timer callback that runs when the persisted game state is no longer the
\* state in which its timer was armed changes nothing of the Game document and
\* emits no games.turn.updated event.
C1_StaleTimerIsNoOp ==
    [][\A s \in 1..MaxProcs :
          (/\ procs[s].op \in TimerCallbacks
           /\ procs'[s] = Idle
           /\ Live(game)
           /\ game.gameState # ArmedState(procs[s].op))
          => (game' = game /\ events' = events)]_vars

\* C2: for every round at most one games.turn.updated event with state
\* selectingWinner is emitted.
C2_OneSelectingWinnerPerRound ==
    \A t \in 0..MaxTurn : hist.swEmits[t] <= 1

\* C3: a score never decreases, changes by exactly +1, and at most one point is
\* awarded per round.
C3_ScoreOnlyOnePointPerRound ==
    [][/\ (Live(game) /\ Live(game')) =>
            \A k \in 1..Len(game.players), n \in 1..Len(game'.players) :
                game.players[k].id = game'.players[n].id =>
                    game'.players[n].score \in
                        {game.players[k].score, game.players[k].score + 1}
       /\ \A t \in 0..MaxTurn : hist'.awards[t] <= 1]_vars

\* C4: every white card id occurs in at most one place among whitePool, the
\* hands and selectedCards.
C4_WhiteCardInOnePlace ==
    Live(game) => \A k \in 1..NumWhite : Cardinality(WhitePlaces(game, WhiteDeck[k])) <= 1

\* C5: |whitePool| + the sizes of all hands + the sizes of all selectedCards
\* entries is the number of white cards the game started with.
C5_WhiteCardConservation ==
    Live(game) =>
        Len(game.whiteCards) + HandSum(game.players) + SelectedSum(game.selectedCards)
            = NumWhite

\* C6: a round start removes from blackPool exactly the id that becomes
\* turn.blackCard.
C6_DrawnBlackCardLeavesPool ==
    [][\A s \in 1..MaxProcs :
          (Ran(s, "handleNextTurn") /\ game'.turnData # game.turnData)
          => /\ game'.turnData.blackCard \notin Range(game'.blackCards)
             /\ Len(game'.blackCards) = Len(procs[s].g.blackCards) - 1
             /\ Range(game'.blackCards) =
                    Range(procs[s].g.blackCards) \ {game'.turnData.blackCard}]_vars

\* the conditions under which games.submit must be rejected, on the game it read
MustRejectSubmit(g, clientId, cards) ==
    \/ g.turnData.czar = clientId
    \/ g.gameState # PICKING_CARDS
    \/ g.turnData.blackCard = Null
    \/ Len(cards) # Pick(g.turnData.blackCard)

\* C7: a games.submit call by the judge, with a wrong number of cards or outside
\* PickingCards is rejected, and a rejected call changes neither the document,
\* nor the timers, nor the events.
C7_RejectedSubmitMutatesNothing ==
    [][/\ \A s \in 1..MaxProcs :
            (procs[s] = Idle /\ procs'[s] # Idle /\ procs'[s].op = "submit")
            => ~MustRejectSubmit(game, procs'[s].clientId, procs'[s].cards)
       /\ (hist'.reply.op = "submit" /\ hist'.reply.outcome = "rejected")
            => (game' = game /\ timers' = timers /\ events' = events)]_vars

\* C7 witness: the judge's submission during PickingCards has just been rejected
C7_Witness ==
    /\ hist.reply.op = "submit" /\ hist.reply.outcome = "rejected"
    /\ Live(game) /\ game.gameState = PICKING_CARDS
    /\ hist.reply.clientId = game.turnData.czar
    /\ \E i \in Inst : timers[i].cb = "handleWinnerSelection"

\* C8: a submission by a player who already has an entry in selectedCards writes
\* nothing, and no submission changes an existing entry.
C8_OneSubmissionPerPlayer ==
    [][\A s \in 1..MaxProcs :
          (/\ procs[s].op = "submit" /\ procs[s].stage = "write"
           /\ procs'[s] # procs[s]
           /\ Live(game))
          => /\ procs[s].clientId \in DOMAIN game.selectedCards => game' = game
             /\ \A c \in DOMAIN game.selectedCards :
                    /\ c \in DOMAIN game'.selectedCards
                    /\ game'.selectedCards[c] = game.selectedCards[c]]_vars

\* C9: a rejected games.winner call changes neither the document nor the
\* pending timer.
C9_RejectedWinnerMutatesNothing ==
    [][(hist'.reply.op = "winner" /\ hist'.reply.outcome = "rejected")
          => (game' = game /\ timers' = timers /\ events' = events)]_vars

\* the player after c in the order of the players map, the first after the last
NextInOrder(players, c) ==
    LET k == FindIndex(players, c) + 1
    IN  IF k = Len(players) THEN players[1].id ELSE players[k + 1].id

\* C10: with a fixed player set the judge of a started round is the player after
\* the judge of the round before it, and the first player in round 1.
C10_JudgeRotation ==
    [][\A s \in 1..MaxProcs :
          (/\ Ran(s, "handleNextTurn")
           /\ Len(events') = Len(events) + 1
           /\ events'[Len(events')].state = PICKING_CARDS)
          => game'.turnData.czar =
                IF game.turnData.turn = 0 THEN game.players[1].id
                ELSE NextInOrder(game.players, game.turnData.czar)]_vars

\* the ids holding the largest score among players
MaxScorers(players) ==
    {players[k].id : k \in {j \in 1..Len(players) :
                               \A n \in 1..Len(players) : players[n].score <= players[j].score}}

\* C11: a next-turn step given a game in which some score is >= the target starts
\* no round (the document is unchanged) and publishes one snapshot with state
\* ended whose winners are exactly the players holding the largest score.
C11_EndGameAtTarget ==
    [][\A s \in 1..MaxProcs :
          (Ran(s, "handleNextTurn") /\ isTargetReached(procs[s].g))
          => /\ game' = game
             /\ Len(events') = Len(events) + 1
             /\ SubSeq(events', 1, Len(events)) = events
             /\ LET e == events'[Len(events')]
                IN  /\ e.state = ENEDED
                    /\ e.turn = procs[s].g.turnData.turn
                    /\ Range(e.winners) = MaxScorers(procs[s].g.players)
                    /\ Len(e.winners) = Cardinality(Range(e.winners))]_vars

\* C11 witness: the ended snapshot of a game two players finished level
C11_Witness ==
    \E k \in 1..Len(events) :
        /\ events[k].state = ENEDED
        /\ Len(events[k].winners) = 2
        /\ \A n \in 1..Len(events[k].players) : events[k].players[n].score >= Target

\* C12: once the persisted state is ended, no step moves the game to another
\* state or starts a round; the document can only be removed.
C12_EndedIsTerminal ==
    [][(Live(game) /\ game.gameState = ENEDED /\ Live(game'))
          => (game'.gameState = ENEDED /\ game'.turnData = game.turnData)]_vars

\* C13: the persisted state changes only along turnSetup -> pickingCards,
\* pickingCards -> selectingWinner, pickingCards -> turnSetup,
\* selectingWinner -> turnSetup and any state -> ended.
C13_StateMachineEdges ==
    [][(Live(game) /\ Live(game') /\ game'.gameState # game.gameState)
          => \/ game'.gameState = ENEDED
             \/ <<game.gameState, game'.gameState>> \in
                    {<<TURN_SETUP, PICKING_CARDS>>, <<PICKING_CARDS, SELECTING_WINNER>>,
                     <<PICKING_CARDS, TURN_SETUP>>, <<SELECTING_WINNER, TURN_SETUP>>}]_vars

\* the players of g whose isCzar flag is set
Czars(g) == {k \in 1..Len(g.players) : g.players[k].isCzar}

\* C14: at most one player has isCzar = TRUE, and a round start leaves exactly
\* the player named by turnData.czar with the flag.
C14_OneCzarFlag ==
    [][/\ Live(game') => Cardinality(Czars(game')) <= 1
       /\ \A s \in 1..MaxProcs :
            (/\ Ran(s, "handleNextTurn")
             /\ Len(events') = Len(events) + 1
             /\ events'[Len(events')].state = PICKING_CARDS)
            => \A k \in 1..Len(game'.players) :
                  game'.players[k].isCzar <=> (game'.players[k].id = game'.turnData.czar)]_vars

\* C14 witness: the second round has started and the flag has moved to b
C14_Witness ==
    /\ Live(game) /\ game.turnData.turn = 2 /\ game.turnData.czar = "b"
    /\ \E k \in 1..Len(game.players) : game.players[k].id = "b" /\ game.players[k].isCzar

\* C15: while the persisted state is turnSetup or ended, with no event and no
\* handler in flight, no player has isCzar = TRUE.
C15_NoCzarBetweenRounds ==
    (/\ Live(game) /\ game.gameState \in {TURN_SETUP, ENEDED}
     /\ events = <<>> /\ \A s \in 1..MaxProcs : procs[s] = Idle)
    => Czars(game) = {}

\* C16: the current judge has no entry in selectedCards.
C16_JudgeHasNoSelection ==
    Live(game) => game.turnData.czar \notin DOMAIN game.selectedCards

\* C17: every entry of selectedCards has as many cards as the current black
\* card asks for.
C17_SelectionMatchesPick ==
    Live(game) =>
        \A p \in DOMAIN game.selectedCards :
            /\ game.turnData.blackCard # Null
            /\ Len(game.selectedCards[p]) = Pick(game.turnData.blackCard)

\* C18: games.start for a room with fewer than 2 players or by a caller who is
\* not the host is rejected, creates no document and emits no event; any other
\* games.start returns the success message.
C18_StartPreconditions ==
    [][\A caller \in Clients, roomPlayers \in Rooms, decksFound \in BOOLEAN,
          roomUpdated \in BOOLEAN :
          StartGame(caller, roomPlayers, decksFound, roomUpdated)
          => /\ hist'.reply.op = "start" /\ hist'.reply.clientId = caller
             /\ IF Len(roomPlayers) < 2 \/ caller # Host
                THEN /\ hist'.reply.outcome = "rejected"
                     /\ game' = game /\ events' = events /\ timers' = timers
                ELSE hist'.reply.outcome = "accepted"]_vars

\* C18 witness: a games.start call by a player who is not the host was rejected
C18_Witness ==
    /\ hist.reply = [op |-> "start", clientId |-> "b", outcome |-> "rejected"]
    /\ game.doc = "none" /\ events = <<>>

\* C19: a games.start call during which decks.get fails is rejected.
C19_DeckFailureIsFatal ==
    [][\A caller \in Clients, roomPlayers \in Rooms :
          StartGame(caller, roomPlayers, FALSE, TRUE)
          => /\ hist'.reply.outcome = "rejected"
             /\ game' = game /\ events' = events]_vars

CardsNeeded(g) ==
    LET RECURSIVE Sum(_)
        Sum(k) == IF k = 0 THEN 0 ELSE (HandSize - Len(g.players[k].cards)) + Sum(k - 1)
    IN  Sum(Len(g.players))

\* C21: a next-turn step whose whiteCards cannot fill every hand starts no
\* round (it writes nothing to the game and publishes no pickingCards
\* snapshot), and no game in pickingCards holds a hand entry that is not a
\* white card of the decks.
C21_ExhaustedWhitePoolStartsNoRound ==
    [][/\ \A s \in 1..MaxProcs :
            (/\ Ran(s, "handleNextTurn")
             /\ ~isTargetReached(procs[s].g)
             /\ Len(procs[s].g.whiteCards) < CardsNeeded(procs[s].g))
            => /\ game' = game
               /\ \A e \in Range(events') \ Range(events) : e.state # PICKING_CARDS
       /\ (Live(game') /\ game'.gameState = PICKING_CARDS)
            => \A k \in 1..Len(game'.players) :
                  Range(game'.players[k].cards) \subseteq Range(AllWhite)]_vars

\* C22: when the player who left while he was the judge of a round in
\* pickingCards or selectingWinner is removed from the game during that round
\* and others remain, the removal changes no score, leaves no timer armed and
\* publishes a turnSetup snapshot of the round without a winner; and the round
\* started after a judge left is judged by a player of the game.
C22_JudgeLeaveEndsRound ==
    [][/\ \A s \in 1..MaxProcs :
            (/\ Ran(s, "leave")
             /\ procs[s].g.gameState \in {PICKING_CARDS, SELECTING_WINNER}
             /\ procs[s].g.turnData.czar = procs[s].clientId
             /\ Live(game)
             /\ game.gameState \in {PICKING_CARDS, SELECTING_WINNER}
             /\ game.turnData = procs[s].g.turnData
             /\ HasPlayer(game.players, procs[s].clientId)
             /\ Len(game.players) > 1)
            => /\ game'.players =
                     SelectSeq(game.players, LAMBDA pl : pl.id # procs[s].clientId)
               /\ timers'[procs[s].inst] = NoTimer
               /\ Len(events') = Len(events) + 1
               /\ events'[Len(events')].state = TURN_SETUP
               /\ events'[Len(events')].winner = Null
               /\ events'[Len(events')].turn = game.turnData.turn
       /\ \A s \in 1..MaxProcs :
            (/\ Ran(s, "handleNextTurn")
             /\ Live(game)
             /\ game'.turnData.turn > game.turnData.turn
             /\ game.turns # <<>>
             /\ game.turns[Len(game.turns)].errorMessage = "The Czar left the game")
            => game'.turnData.czar \in Range(PlayerIds(game.players))]_vars

\* a judge has left during the round and the next round is under way
C22_Witness ==
    /\ Live(game)
    /\ game.turnData.turn = 2
    /\ game.turns # <<>>
    /\ game.turns[Len(game.turns)].errorMessage = "The Czar left the game"
    /\ game.turns[Len(game.turns)].winner = Null
    /\ game.turnData.czar \in Range(PlayerIds(game.players))

\* C23: the join of a player the running game does not hold adds him with
\* score 0 and isCzar false and, when whiteCards holds a hand's worth of cards,
\* gives him a full hand of cards that leave whiteCards; the state and the
\* round of the game stay as they are.
C23_JoinDealsCatchUpHand ==
    [][\A s \in 1..MaxProcs :
          (/\ Ran(s, "join")
           /\ Live(game)
           /\ ~HasPlayer(procs[s].g.players, procs[s].clientId)
           /\ ~HasPlayer(game.players, procs[s].clientId)
           /\ Len(game.whiteCards) >= HandSize)
          => /\ HasPlayer(game'.players, procs[s].clientId)
             /\ LET pl == PlayerOf(game'.players, procs[s].clientId)
                IN  /\ pl.score = 0
                    /\ ~pl.isCzar
                    /\ Len(pl.cards) = HandSize
                    /\ Range(pl.cards) \subseteq Range(game.whiteCards)
                    /\ Range(pl.cards) \cap Range(game'.whiteCards) = {}
                    /\ Len(game'.whiteCards) = Len(game.whiteCards) - HandSize
             /\ game'.gameState = game.gameState
             /\ game'.turnData = game.turnData]_vars

\* C24: in one instance every game id has at most one timeout pending, a
\* callback runs only for the handle armed last for its game id, and a step
\* that arms, clears or fires the timer of one game id leaves the pending
\* timeouts of the other game ids as they are.
C24_OneTimerPerGame ==
    [][/\ \A gameId \in GameIds : Cardinality(PendingOf(timers', gameId)) <= 1
       /\ \A t \in timers'.ran \ timers.ran : timers.gameTimeout[t.gameId] = t.handle
       /\ \A gameId \in GameIds :
             timers'.gameTimeout[gameId] # timers.gameTimeout[gameId]
             => \A other \in GameIds \ {gameId} :
                   PendingOf(timers', other) = PendingOf(timers, other)]_vars

\* a timer was replaced by a later arm and the later one ran, while a timer
\* of the other game is still pending
C24_Witness ==
    /\ \E t \in timers.ran : t.handle > 1 /\ timers.gameTimeout[t.gameId] = t.handle
    /\ \E gameId \in GameIds : Cardinality(PendingOf(timers, gameId)) = 1
    /\ timers.next > 3

\* C25: once the game is removed no instance holds an armed timer for it,
\* and no step writes the document or publishes a games.turn.updated event.
C25_DestroyedGameIsQuiet ==
    [][game.doc = "removed"
       => /\ \A i \in Inst : timers[i] = NoTimer
          /\ game' = game
          /\ Len(events') <= Len(events)]_vars

\* C26: the games.deal event a round start sends to a player carries cards of
\* the hand that player was dealt, and none of the cards it carries is in the
\* hand of another player.
C26_DealCarriesOwnHand ==
    [][\A s \in 1..MaxProcs :
          (/\ Ran(s, "handleNextTurn")
           /\ Live(game')
           /\ game'.turnData.turn = procs[s].g.turnData.turn + 1
           /\ Len(events') = Len(events) + 1)
          => LET deal == gamesDeal(game'.players)
             IN  \A k \in 1..Len(deal) :
                    /\ deal[k].clientId = game'.players[k].id
                    /\ Range(deal[k].cards) \subseteq Range(game'.players[k].cards)
                    /\ \A j \in 1..Len(deal) :
                          j # k => Range(deal[k].cards)
                                     \cap Range(game'.players[j].cards) = {}]_vars

\* C27: every step of a live game leaves the entries turns already holds
\* unchanged and in place, and adds at most one entry.
C27_TurnsAppendOnly ==
    [][(Live(game) /\ Live(game'))
       => /\ Len(game'.turns) \in {Len(game.turns), Len(game.turns) + 1}
          /\ SubSeq(game'.turns, 1, Len(game.turns)) = game.turns]_vars

\* C28: a first round in pickingCards or selectingWinner with no entry in
\* turns eventually ends: the game reaches turnSetup (or its end is recorded in
\* turns, or the game is removed), whatever calls the players make.
C28_RoundEventuallyEnds ==
    (/\ Live(game)
     /\ game.gameState \in {PICKING_CARDS, SELECTING_WINNER}
     /\ game.turnData.turn = 1
     /\ game.turns = <<>>)
    ~> (\/ ~Live(game)
        \/ game.gameState = TURN_SETUP
        \/ game.turns # <<>>)

\* C29: a round start whose whiteCards holds at least the cards the hands
\* need leaves every hand full, each entry of it a card the hand held or a
\* card whiteCards held when the round start read the game, and leaves a hand
\* that was full as it was.
C29_RoundStartFillsHands ==
    [][\A s \in 1..MaxProcs :
          (/\ Ran(s, "handleNextTurn")
           /\ Live(game')
           /\ game'.turnData.turn = procs[s].g.turnData.turn + 1
           /\ Len(events') = Len(events) + 1
           /\ Len(procs[s].g.whiteCards) >= CardsNeeded(procs[s].g))
          => \A k \in 1..Len(game'.players) :
                LET before == procs[s].g.players[k].cards
                    after == game'.players[k].cards
                IN  /\ Len(after) = HandSize
                    /\ Range(after) \subseteq
                          Range(before) \cup Range(procs[s].g.whiteCards)
                    /\ Len(before) = HandSize => after = before]_vars

\* C30: the write of an accepted submission of cards C by player p sets
\* selectedCards[p] to C, removes the cards of C from the hand of p and
\* changes nothing else of the game, whatever other submissions are in flight.
C30_SubmitWritesOnlyOwnEntries ==
    [][\A s \in 1..MaxProcs :
          (/\ procs[s].op = "submit" /\ procs[s].stage = "write"
           /\ procs'[s].op = "submit" /\ procs'[s].stage = "reread")
          => LET p == procs[s].clientId
                 C == procs[s].cards
                 k == FindIndex(game.players, p) + 1
             IN  /\ game'.selectedCards =
                       MapPut(game.selectedCards, p, C)
                 /\ game'.players =
                       [game.players EXCEPT ![k].cards = FilterOut(@, C)]
                 /\ game' = [game EXCEPT !.selectedCards = game'.selectedCards,
                                         !.players = game'.players]
                 /\ timers' = timers
                 /\ events' = events]_vars

\* C31: the cards an accepted submission records are distinct cards of the
\* hand of the submitter, and the write shrinks that hand by the pick count of
\* the black card.
C31_SubmittedCardsComeFromHand ==
    [][\A s \in 1..MaxProcs :
          (/\ procs[s].op = "submit" /\ procs[s].stage = "write"
           /\ procs'[s].op = "submit" /\ procs'[s].stage = "reread")
          => LET p == procs[s].clientId
                 C == procs[s].cards
                 hand == PlayerOf(procs[s].g.players, p).cards
             IN  /\ Range(C) \subseteq Range(hand)
                 /\ Cardinality(Range(C)) = Len(C)
                 /\ Len(PlayerOf(game'.players, p).cards)
                       = Len(hand) - Pick(procs[s].g.turnData.blackCard)]_vars

\* C32: the winner of an accepted games.winner call is a player of the game
\* other than the judge and has an entry in selectedCards of the round.
C32_WinnerIsSubmitter ==
    [][\A s \in 1..MaxProcs :
          (/\ Ran(s, "winner")
           /\ hist'.reply.op = "winner" /\ hist'.reply.outcome = "accepted")
          => /\ procs[s].winner # procs[s].g.turnData.czar
             /\ HasPlayer(procs[s].g.players, procs[s].winner)
             /\ procs[s].winner \in DOMAIN procs[s].g.selectedCards]_vars

\* C33: an accepted games.winner call of the judge in selectingWinner adds 1
\* to the score of the winner and to no other score, leaves hands, flags,
\* pools and turn data as they are, appends one entry with the winner and his
\* submitted cards to turns and publishes it as a turnSetup snapshot; it starts
\* no round.
C33_WinnerCallEffect ==
    [][\A s \in 1..MaxProcs :
          (/\ Ran(s, "winner")
           /\ hist'.reply.op = "winner" /\ hist'.reply.outcome = "accepted"
           /\ game.gameState = SELECTING_WINNER)
          => LET w == procs[s].winner
             IN  /\ game'.players =
                       [k \in 1..Len(game.players) |->
                          IF game.players[k].id = w
                          THEN [game.players[k] EXCEPT !.score = @ + 1]
                          ELSE game.players[k]]
                 /\ game'.whiteCards = game.whiteCards
                 /\ game'.blackCards = game.blackCards
                 /\ game'.turnData = game.turnData
                 /\ Len(game'.turns) = Len(game.turns) + 1
                 /\ SubSeq(game'.turns, 1, Len(game.turns)) = game.turns
                 /\ game'.turns[Len(game'.turns)].winner = w
                 /\ game'.turns[Len(game'.turns)].winningCards = game.selectedCards[w]
                 /\ Len(events') = Len(events) + 1
                 /\ events'[Len(events')].state = TURN_SETUP
                 /\ events'[Len(events')].winner = w]_vars

\* every player of g but the judge has an entry in selectedCards
AllSubmitted(g) ==
    \A k \in 1..Len(g.players) :
       g.players[k].id # g.turnData.czar => g.players[k].id \in DOMAIN g.selectedCards

\* C34: when an accepted submission returns in pickingCards, the selectingWinner
\* snapshot is published and the round timer cancelled if every player but the
\* judge has an entry in selectedCards, and otherwise nothing changes and the
\* round timer stays as it is; the selectingWinner event arms the judging timer.
C34_RoundCompletion ==
    [][/\ \A s \in 1..MaxProcs :
            (/\ Ran(s, "submit") /\ procs[s].stage = "reread"
             /\ hist'.reply.outcome = "accepted"
             /\ game.gameState = PICKING_CARDS)
            => IF AllSubmitted(game)
               THEN /\ Len(events') = Len(events) + 1
                    /\ events'[Len(events')].state = SELECTING_WINNER
                    /\ events'[Len(events')].selectedCards = game.selectedCards
                    /\ timers'[procs[s].inst] = NoTimer
                    /\ game' = game
               ELSE /\ events' = events
                    /\ timers' = timers
                    /\ game' = game
       /\ \A k \in 1..MaxEvents, i \in Inst :
            (/\ k <= Len(events) /\ events[k].state = SELECTING_WINNER
             /\ Live(game) /\ TurnUpdated(k, i))
            => /\ game'.gameState = SELECTING_WINNER
               /\ timers'[i] = [cb |-> "handleNoWinner", delay |-> RoundTime]]_vars

\* the second of two submissions of a round of three players has returned:
\* the selectingWinner snapshot is published and no timer is armed
C34_Witness ==
    /\ Live(game)
    /\ game.gameState = PICKING_CARDS
    /\ AllSubmitted(game)
    /\ Cardinality(DOMAIN game.selectedCards) = 2
    /\ hist.reply.op = "submit" /\ hist.reply.outcome = "accepted"
    /\ events # <<>>
    /\ events[Len(events)].state = SELECTING_WINNER
    /\ \A i \in Inst : timers[i] = NoTimer


NoSelectionMessage == "No one selected any cards. Everyone loses!"

\* C35: when the callback of the round timer runs on a game it read in
\* pickingCards: if that game has no selected cards, a turnSetup snapshot with
\* winner null and the 'everyone loses' message is published and appended to
\* turns; if it has some, a selectingWinner snapshot carrying them is published
\* and the document is left alone; in both cases no score changes.
C35_RoundTimerInPicking ==
    [][\A s \in 1..MaxProcs :
          (/\ Ran(s, "handleWinnerSelection")
           /\ procs[s].g.gameState = PICKING_CARDS
           /\ Live(game))
          => /\ Len(events') = Len(events) + 1
             /\ game'.players = game.players
             /\ timers'[procs[s].inst] = NoTimer
             /\ LET e == events'[Len(events')]
                IN  IF DOMAIN procs[s].g.selectedCards = {}
                    THEN /\ e.state = TURN_SETUP
                         /\ e.winner = Null
                         /\ e.errorMessage = NoSelectionMessage
                         /\ game'.turns = Append(game.turns, e)
                    ELSE /\ e.state = SELECTING_WINNER
                         /\ e.selectedCards = procs[s].g.selectedCards
                         /\ game' = game]_vars


\* the timer onTurnUpdated is to arm for an event e
TimerFor(e) ==
    CASE e.state = TURN_SETUP ->
           [cb |-> "handleNextTurn", delay |-> IF e.initializing THEN 0 ELSE GraceDelay]
      [] e.state = PICKING_CARDS -> [cb |-> "handleWinnerSelection", delay |-> RoundTime]
      [] e.state = SELECTING_WINNER -> [cb |-> "handleNoWinner", delay |-> RoundTime]
      [] e.state = ENEDED -> [cb |-> "destroyGame", delay |-> RoundTime]

\* C36: a step that processes a games.turn.updated event of state s for a game
\* that exists leaves the instance with the one timer of s (next turn after the
\* grace delay, or after 0 for the initial event; winner selection after
\* roundTime; no winner after roundTime; destruction after roundTime) and the
\* persisted state s.
C36_TimerMatchesState ==
    [][\A k \in 1..MaxEvents, i \in Inst :
          (k <= Len(events) /\ Live(game) /\ TurnUpdated(k, i))
          => /\ timers'[i] = TimerFor(events[k])
             /\ game'.gameState = events[k].state
             /\ ArmedState(timers'[i].cb) = game'.gameState]_vars

\* the ended snapshot has been processed: the game waits roundTime for its
\* destruction
C36_Witness ==
    /\ Live(game)
    /\ game.gameState = ENEDED
    /\ timers[1] = [cb |-> "destroyGame", delay |-> RoundTime]


C38_MembershipNotLost ==
    [][\A s \in 1..MaxProcs :
          (/\ \/ Ran(s, "handleNextTurn") /\ game'.turnData.turn > game.turnData.turn
              \/ Ran(s, "winner") /\ hist'.reply.outcome = "accepted"
           /\ Live(game)
           /\ Live(game'))
          => /\ Range(PlayerIds(game'.players)) = Range(PlayerIds(game.players))
             /\ game'.turnData.czar \in Range(PlayerIds(game.players))]_vars

\* C40: a games.start call that creates the Game document publishes the
\* initial games.turn.updated event of the game (state turnSetup, initializing),
\* whether rooms.update resolves or rejects; and the step that ends a game
\* publishes the ended snapshot whatever rooms.update answers afterwards.
C40_RoomUpdateFailureDoesNotBlock ==
    [][/\ \A caller \in Clients, roomPlayers \in Rooms, roomUpdated \in BOOLEAN :
            (/\ StartGame(caller, roomPlayers, TRUE, roomUpdated)
             /\ hist'.reply.outcome = "accepted")
            => /\ Live(game')
               /\ Len(events') = Len(events) + 1
               /\ events'[Len(events')].state = TURN_SETUP
               /\ events'[Len(events')].initializing
       /\ \A s \in 1..MaxProcs :
            (Ran(s, "handleNextTurn") /\ isTargetReached(procs[s].g))
            => /\ Len(events') = Len(events) + 1
               /\ events'[Len(events')].state = ENEDED]_vars

\* C39: the room has at most one Game document at any time.
C39_OneGamePerRoom == Len(game.docs) <= 1

====
